---- MODULE Spec2Model ----
(***************************************************************************)
(* Model of scripts/test-mcp.py: a sequential conformance client that      *)
(* drives an MCP server (JSON-RPC over Streamable HTTP) through            *)
(* initialize, notifications/initialized, tools/list and two tools/call    *)
(* requests, records one verdict per scenario and exits with a status      *)
(* derived from the failed counter.                                        *)
(*                                                                         *)
(* The server is the environment: every call receives one response chosen  *)
(* from a finite set of transport outcomes, headers and bodies.            *)
(***************************************************************************)
EXTENDS Integers, Sequences, FiniteSets, TLC

(***************************************************************************)
(* Python / JSON values.  Every value is a record tagged by k.  A dict is  *)
(* a function from its keys to values, a list a sequence of values, a str  *)
(* a sequence of chunks of text.  None is the value of JSON null and of    *)
(* an absent result.                                                       *)
(***************************************************************************)
None == [k |-> "null"]
Bool(b) == [k |-> "bool", b |-> b]
Num(n) == [k |-> "num", n |-> n]
Str(s) == [k |-> "str", s |-> s]
List(items) == [k |-> "list", items |-> items]
Obj(m) == [k |-> "obj", m |-> m]

EmptyDict == Obj(<<>>)
EmptyList == List(<<>>)
EmptyStr == Str(<<>>)

\* bool(v): the truth value Python gives a value in `if v` / `v and ...`
Truthy(v) ==
    CASE v.k = "null" -> FALSE
      [] v.k = "bool" -> v.b
      [] v.k = "num" -> v.n # 0
      [] v.k = "str" -> v.s # <<>>
      [] v.k = "list" -> v.items # <<>>
      [] v.k = "obj" -> DOMAIN v.m # {}

\* `key in v` raises TypeError when v is a number, a bool or None
InRaises(v) == v.k \in {"null", "bool", "num"}

\* `key in v`: key lookup in a dict, membership in a list, substring in a str
In(key, v) ==
    CASE v.k = "obj" -> key \in DOMAIN v.m
      [] v.k = "list" -> \E i \in 1..Len(v.items) : v.items[i] = Str(<<key>>)
      [] v.k = "str" -> \E i \in 1..Len(v.s) : v.s[i] = key
      [] OTHER -> FALSE

\* v[key] with a str key raises TypeError unless v is a dict (KeyError when
\* the key is missing)
SubscriptRaises(v, key) == v.k # "obj" \/ key \notin DOMAIN v.m

\* v.get(key, default) raises AttributeError unless v is a dict
GetRaises(v) == v.k # "obj"

Get(v, key, default) == IF key \in DOMAIN v.m THEN v.m[key] ELSE default

(***************************************************************************)
(* Response bodies.  A body is a sequence of tokens.  A token is a piece   *)
(* of text: the six characters "data: " (D), a line feed (NL), the line    *)
(* separator U+2028 (LS), a space (SP), a double quote (Q), the digit 1    *)
(* (N), a letter (X), or the compact one-line JSON text of a value (J).    *)
(***************************************************************************)
Ch(c) == [c |-> c]
J(v) == [c |-> "J", v |-> v]
D == Ch("D")
NL == Ch("NL")
LS == Ch("LS")
SP == Ch("SP")
Q == Ch("Q")
N == Ch("N")
X == Ch("X")

\* does the compact JSON text of v contain the characters "data: "
RECURSIVE TextHasData(_)
TextHasData(v) ==
    CASE v.k = "str" -> \E i \in 1..Len(v.s) : v.s[i] = "data: "
      [] v.k = "list" -> \E i \in 1..Len(v.items) : TextHasData(v.items[i])
      [] v.k = "obj" -> \E key \in DOMAIN v.m : TextHasData(v.m[key])
      [] OTHER -> FALSE

\* `"data: " in body`
HasData(body) ==
    \E i \in 1..Len(body) :
        \/ body[i] = D
        \/ body[i].c = "J" /\ TextHasData(body[i].v)

\* str.splitlines(): breaks at "\n" and at U+2028, keeps empty lines, and
\* yields no empty last line after a final break
LineBreaks == {NL, LS}

RECURSIVE SplitFrom(_, _, _)
SplitFrom(s, cur, acc) ==
    IF s = <<>> THEN (IF cur = <<>> THEN acc ELSE Append(acc, cur))
    ELSE IF Head(s) \in LineBreaks THEN SplitFrom(Tail(s), <<>>, Append(acc, cur))
    ELSE SplitFrom(Tail(s), Append(cur, Head(s)), acc)

SplitLines(body) == SplitFrom(body, <<>>, <<>>)

\* line.startswith("data: ")
StartsWithData(line) == line # <<>> /\ Head(line) = D

\* JSON whitespace (space and line feed; U+2028 is not JSON whitespace)
JsonWs == {SP, NL}

RECURSIVE LStrip(_)
LStrip(s) == IF s # <<>> /\ Head(s) \in JsonWs THEN LStrip(Tail(s)) ELSE s

RECURSIVE RStrip(_)
RStrip(s) ==
    IF s # <<>> /\ s[Len(s)] \in JsonWs THEN RStrip(SubSeq(s, 1, Len(s) - 1)) ELSE s

\* characters a JSON string literal may hold between its quotes: no quote,
\* no control character such as a raw line feed; U+2028 is allowed
StrChars == {D, LS, SP, N, X}

StrChunk(t) ==
    CASE t = D -> "data: "
      [] t = LS -> "u2028"
      [] t = SP -> " "
      [] t = N -> "1"
      [] OTHER -> "x"

\* json.loads(text): [ok |-> FALSE] stands for json.JSONDecodeError
JsonLoads(text) ==
    LET core == RStrip(LStrip(text))
        n == Len(core)
    IN  IF n = 1 /\ core[1].c = "J"
            THEN [ok |-> TRUE, v |-> core[1].v]
        ELSE IF n >= 1 /\ \A i \in 1..n : core[i] = N
            THEN [ok |-> TRUE, v |-> Num(n)]
        ELSE IF n >= 2 /\ core[1] = Q /\ core[n] = Q
                /\ \A i \in 2..(n - 1) : core[i] \in StrChars
            THEN [ok |-> TRUE, v |-> Str([i \in 1..(n - 2) |-> StrChunk(core[i + 1])])]
        ELSE [ok |-> FALSE, v |-> None]

\* a plausible slip: the first data line decides, a JSONDecodeError ends
\* the scan instead of continuing
RECURSIVE ScanDataLinesNoContinue(_)
ScanDataLinesNoContinue(lines) ==
    IF lines = <<>> THEN [ok |-> FALSE, v |-> None]
    ELSE IF StartsWithData(Head(lines)) THEN JsonLoads(Tail(Head(lines)))
    ELSE ScanDataLinesNoContinue(Tail(lines))

\* the loop over body.splitlines(): the first line that starts with
\* "data: " and whose remainder parses returns; a JSONDecodeError continues
RECURSIVE ScanDataLines(_)
ScanDataLines(lines) ==
    IF lines = <<>> THEN [ok |-> FALSE, v |-> None]
    ELSE IF StartsWithData(Head(lines)) /\ JsonLoads(Tail(Head(lines))).ok
        THEN JsonLoads(Tail(Head(lines)))
    ELSE ScanDataLines(Tail(lines))

\* a plausible slip: a body with "data: " is never parsed as a whole
DecodeBodyNoFallThrough(body) ==
    LET sse == ScanDataLines(SplitLines(body))
        plain == JsonLoads(body)
    IN  IF HasData(body) THEN (IF sse.ok THEN sse.v ELSE None)
        ELSE IF plain.ok THEN plain.v
        ELSE None

\* the body decoding of mcp_post: the value returned next to the status
DecodeBody(body) ==
    LET sse == IF HasData(body) THEN ScanDataLines(SplitLines(body))
               ELSE [ok |-> FALSE, v |-> None]
        plain == JsonLoads(body)
    IN  IF sse.ok THEN sse.v
        ELSE IF plain.ok THEN plain.v
        ELSE None

(***************************************************************************)
(* mcp_post.  A response r of the server is a record:                      *)
(*   kind "ok"        urlopen returned a response (a 2xx status code)      *)
(*   kind "httperror" urlopen raised urllib.error.HTTPError (not 2xx)      *)
(*   kind "urlerror"  urlopen raised urllib.error.URLError: no connection, *)
(*                    or a timeout while connecting or sending             *)
(*   kind "readerror" the response headers arrived and resp.read() raised  *)
(*                    (socket timeout, reset): not a URLError              *)
(* with the Mcp-Session-Id header value sid (None when absent), the        *)
(* status code and the body.                                               *)
(***************************************************************************)
SessionHeader == "Mcp-Session-Id"

BaseHeaders ==
    [h \in {"Content-Type", "Accept"} |->
        IF h = "Content-Type" THEN Str(<<"application/json">>)
        ELSE Str(<<"application/json, text/event-stream">>)]

\* a plausible slip: the session header is attached without the
\* `if session_id:` test
RequestHeadersUnchecked(session) ==
    [h \in DOMAIN BaseHeaders \cup {SessionHeader} |->
        IF h = SessionHeader THEN session ELSE BaseHeaders[h]]

\* the headers of the outgoing request: the session header is attached
\* when the cached session id is truthy
RequestHeaders(session) ==
    IF Truthy(session)
        THEN [h \in DOMAIN BaseHeaders \cup {SessionHeader} |->
                IF h = SessionHeader THEN session ELSE BaseHeaders[h]]
    ELSE BaseHeaders

\* a plausible slip: the cache is overwritten without the `if sid:` test
CacheSessionUnchecked(session, sid) == sid

\* the session id cached after the response headers were read
CacheSession(session, sid) == IF Truthy(sid) THEN sid ELSE session

\* a plausible variant: the session header of an HTTPError is cached too
McpPostCachingOnError(payload, session, r) ==
    LET request == [payload |-> payload, headers |-> RequestHeaders(session)]
    IN  CASE r.kind = "ok" ->
                [request |-> request, raised |-> FALSE,
                 session_id |-> CacheSession(session, r.sid),
                 resp |-> DecodeBody(r.body), status |-> r.code]
          [] r.kind = "readerror" ->
                [request |-> request, raised |-> TRUE,
                 session_id |-> CacheSession(session, r.sid),
                 resp |-> None, status |-> r.code]
          [] r.kind = "httperror" ->
                [request |-> request, raised |-> FALSE,
                 session_id |-> CacheSession(session, r.sid),
                 resp |-> None, status |-> r.code]
          [] r.kind = "urlerror" ->
                [request |-> request, raised |-> FALSE,
                 session_id |-> session,
                 resp |-> None, status |-> 0]

McpPost(payload, session, r) ==
    LET request == [payload |-> payload, headers |-> RequestHeaders(session)]
    IN  CASE r.kind = "ok" ->
                [request |-> request, raised |-> FALSE,
                 session_id |-> CacheSession(session, r.sid),
                 resp |-> DecodeBody(r.body), status |-> r.code]
          [] r.kind = "readerror" ->
                [request |-> request, raised |-> TRUE,
                 session_id |-> CacheSession(session, r.sid),
                 resp |-> None, status |-> r.code]
          [] r.kind = "httperror" ->
                [request |-> request, raised |-> FALSE,
                 session_id |-> session,
                 resp |-> None, status |-> (IF r.code = 202 THEN 202 ELSE r.code)]
          [] r.kind = "urlerror" ->
                [request |-> request, raised |-> FALSE,
                 session_id |-> session,
                 resp |-> None, status |-> 0]

(***************************************************************************)
(* The verdict of a scenario.  An outcome says which counter grew          *)
(* ("pass", "fail" or "none"), whether an exception left the scenario      *)
(* (raised), and the [PASS]/[FAIL] line that was printed.                  *)
(***************************************************************************)
NoLine == [tag |-> "NONE", label |-> <<>>, name |-> None, missing |-> {}]
PassLine(label) == [tag |-> "PASS", label |-> label, name |-> None, missing |-> {}]
FailLine(label, name, missing) ==
    [tag |-> "FAIL", label |-> label, name |-> name, missing |-> missing]

Raised == [verdict |-> "none", raised |-> TRUE, line |-> NoLine]
\* ok(msg)
Ok(label) == [verdict |-> "pass", raised |-> FALSE, line |-> PassLine(label)]
\* fail(msg)
Fail(label, name, missing) ==
    [verdict |-> "fail", raised |-> FALSE, line |-> FailLine(label, name, missing)]
\* an exception after the verdict was recorded
ThenRaised(outcome) == [outcome EXCEPT !.raised = TRUE]

\* iterating v raises TypeError for None, numbers and bools
IterRaises(v) == v.k \in {"null", "bool", "num"}

RECURSIVE KeySeq(_)
KeySeq(keys) ==
    IF keys = {} THEN <<>>
    ELSE LET key == CHOOSE x \in keys : TRUE
         IN  <<Str(<<key>>)>> \o KeySeq(keys \ {key})

\* the elements `for t in v` visits
Elems(v) ==
    CASE v.k = "list" -> v.items
      [] v.k = "str" -> [i \in 1..Len(v.s) |-> Str(<<v.s[i]>>)]
      [] v.k = "obj" -> KeySeq(DOMAIN v.m)
      [] OTHER -> <<>>

ExpectedServer == Str(<<"qtrade-mcp">>)

\* Test 1 after the status check: `if resp and "result" in resp: ... else:`
Test1Verdict(resp) ==
    IF ~Truthy(resp) THEN Fail(<<"initialize", "abnormal response">>, None, {})
    ELSE IF InRaises(resp) THEN Raised
    ELSE IF ~In("result", resp) THEN Fail(<<"initialize", "abnormal response">>, None, {})
    ELSE IF SubscriptRaises(resp, "result") THEN Raised
    ELSE LET result == resp.m["result"]
         IN  IF GetRaises(result) THEN Raised
             ELSE LET server_info == Get(result, "serverInfo", EmptyDict)
                  IN  IF GetRaises(server_info) THEN Raised
                      ELSE LET name == Get(server_info, "name", Str(<<"?">>))
                           IN  IF name = ExpectedServer
                                   THEN Ok(<<"initialize", "succeeded">>)
                               ELSE Fail(<<"initialize", "server name mismatch">>, name, {})

expected_tools == {Str(<<"hk_buy">>), Str(<<"hk_sell">>), Str(<<"get_quote">>)}

\* {t["name"] for t in tools} raises when tools is not iterable, when an
\* element is not a dict with a name, or when a name is unhashable
ToolNamesRaises(tools) ==
    \/ IterRaises(tools)
    \/ \E i \in 1..Len(Elems(tools)) :
          \/ SubscriptRaises(Elems(tools)[i], "name")
          \/ Elems(tools)[i].m["name"].k \in {"list", "obj"}

ToolNames(tools) == {Elems(tools)[i].m["name"] : i \in 1..Len(Elems(tools))}

\* the per-tool info lines printed after ok(): description[:40] and
\* inputSchema.properties.keys()
ToolInfoRaises(t) ==
    \/ Get(t, "description", EmptyStr).k \notin {"str", "list"}
    \/ GetRaises(Get(t, "inputSchema", EmptyDict))
    \/ Get(Get(t, "inputSchema", EmptyDict), "properties", EmptyDict).k # "obj"

\* Test 2: `if resp and "result" in resp: ... else:`
Test2Verdict(resp) ==
    IF ~Truthy(resp) THEN Fail(<<"tools/list", "abnormal response">>, None, {})
    ELSE IF InRaises(resp) THEN Raised
    ELSE IF ~In("result", resp) THEN Fail(<<"tools/list", "abnormal response">>, None, {})
    ELSE IF SubscriptRaises(resp, "result") THEN Raised
    ELSE LET result == resp.m["result"]
         IN  IF GetRaises(result) THEN Raised
             ELSE LET tools == Get(result, "tools", EmptyList)
                  IN  IF ToolNamesRaises(tools) THEN Raised
                      ELSE LET tool_names == ToolNames(tools)
                           IN  IF expected_tools \subseteq tool_names
                                   THEN IF \E i \in 1..Len(Elems(tools)) :
                                               ToolInfoRaises(Elems(tools)[i])
                                            THEN ThenRaised(Ok(<<"tools/list", "succeeded">>))
                                        ELSE Ok(<<"tools/list", "succeeded">>)
                               ELSE Fail(<<"tools/list", "missing tools">>, None,
                                         expected_tools \ tool_names)

\* [c["text"] for c in content if c.get("type") == "text"] and the join
TextsRaises(content) ==
    \/ IterRaises(content)
    \/ \E i \in 1..Len(Elems(content)) :
          LET c == Elems(content)[i]
          IN  \/ GetRaises(c)
              \/ /\ Get(c, "type", None) = Str(<<"text">>)
                 /\ \/ SubscriptRaises(c, "text")
                    \/ c.m["text"].k # "str"

\* Test 3 and Test 4: `if resp and "result" in resp: ... elif resp and
\* "error" in resp: ... else:`
ToolCallVerdict(tool, resp) ==
    IF ~Truthy(resp) THEN Fail(<<tool, "abnormal response">>, None, {})
    ELSE IF InRaises(resp) THEN Raised
    ELSE IF In("result", resp)
        THEN IF SubscriptRaises(resp, "result") THEN Raised
             ELSE LET result == resp.m["result"]
                  IN  IF GetRaises(result) THEN Raised
                      ELSE LET is_error == Get(result, "isError", Bool(FALSE))
                               content == Get(result, "content", EmptyList)
                           IN  IF TextsRaises(content) THEN Raised
                               ELSE IF Truthy(is_error)
                                   THEN Ok(<<tool, "completed with error content">>)
                               ELSE Ok(<<tool, "succeeded">>)
    ELSE IF In("error", resp)
        THEN IF SubscriptRaises(resp, "error") \/ GetRaises(resp.m["error"])
                 THEN ThenRaised(Fail(<<tool, "JSON-RPC error">>, None, {}))
             ELSE Fail(<<tool, "JSON-RPC error">>, None, {})
    ELSE Fail(<<tool, "abnormal response">>, None, {})

(***************************************************************************)
(* The responses the server may give.                                      *)
(***************************************************************************)
Resp(kind, code, sid, body) == [kind |-> kind, code |-> code, sid |-> sid, body |-> body]
NoReply == Resp("none", 0, None, <<>>)

Sid1 == Str(<<"s1">>)
Sid2 == Str(<<"s2">>)
SidValues == {None, EmptyStr, Sid1, Sid2}

RpcResult(r) == Obj([jsonrpc |-> Str(<<"2.0">>), result |-> r])
RpcError(e) == Obj([jsonrpc |-> Str(<<"2.0">>), error |-> e])
RpcBoth(r, e) == Obj([jsonrpc |-> Str(<<"2.0">>), result |-> r, error |-> e])
ErrorObject == Obj([code |-> Num(1), message |-> Str(<<"boom">>)])

\* values any call may receive: envelopes without result, malformed
\* envelopes and JSON texts that are not objects
CommonValues ==
    { Obj([jsonrpc |-> Str(<<"2.0">>)]), EmptyDict, None,
      RpcError(ErrorObject), RpcError(Str(<<"boom">>)),
      RpcResult(None), RpcResult(EmptyDict), RpcBoth(EmptyDict, ErrorObject),
      RpcBoth(None, ErrorObject),
      Num(5), Bool(TRUE), EmptyList,
      Str(<<"result">>), Str(<<"error">>), List(<<Str(<<"result">>)>>) }

ServerInfos ==
    { Obj([name |-> Str(<<"qtrade-mcp">>), version |-> Str(<<"0.1.0">>)]),
      Obj([name |-> Str(<<"wrong-name">>), version |-> Str(<<"0.1.0">>)]),
      Obj([name |-> Num(5)]),
      Obj([version |-> Str(<<"0.1.0">>)]),
      None }

InitializeValues ==
    {RpcResult(Obj([protocolVersion |-> Str(<<"2024-11-05">>), serverInfo |-> si])) :
        si \in ServerInfos}
    \cup {RpcResult(Obj([protocolVersion |-> Str(<<"2024-11-05">>)]))}

ToolOrder == <<"hk_buy", "hk_sell", "get_quote", "extra_tool">>
Tool(name) == Obj([name |-> Str(<<name>>), description |-> Str(<<"d">>)])

RECURSIVE ToolList(_, _)
ToolList(names, i) ==
    IF i > Len(ToolOrder) THEN <<>>
    ELSE (IF ToolOrder[i] \in names THEN <<Tool(ToolOrder[i])>> ELSE <<>>)
         \o ToolList(names, i + 1)

AllTools == ToolList({"hk_buy", "hk_sell", "get_quote"}, 1)

ToolsValues ==
    {RpcResult(Obj([tools |-> List(ToolList(names, 1))])) :
        names \in SUBSET {"hk_buy", "hk_sell", "get_quote", "extra_tool"}}
    \cup { RpcResult(Obj([tools |-> None])),
           RpcResult(Obj([tools |-> List(AllTools \o <<Obj([description |-> Str(<<"d">>)])>>)])),
           RpcResult(Obj([tools |-> List(<<Tool("hk_buy"), EmptyDict>>)])),
           RpcResult(Obj([tools |-> List(AllTools \o
               <<Obj([name |-> Str(<<"extra_tool">>), description |-> None])>>)])) }

Contents ==
    { List(<<Obj([type |-> Str(<<"text">>), text |-> Str(<<"quote">>)])>>),
      List(<<Obj([type |-> Str(<<"text">>), text |-> Str(<<"data: ", "quote">>)])>>),
      List(<<Obj([type |-> Str(<<"image">>)])>>),
      List(<<Obj([type |-> Str(<<"text">>)])>>),
      None }

ToolCallValues ==
    {RpcResult(Obj([isError |-> e, content |-> c])) :
        e \in {Bool(TRUE), Bool(FALSE)}, c \in Contents}
    \cup {RpcResult(Obj([content |-> c])) : c \in Contents}
    \cup {RpcResult(Obj([isError |-> e])) : e \in {Bool(TRUE), Bool(FALSE)}}
    \cup {RpcBoth(Obj([isError |-> Bool(FALSE)]), ErrorObject)}

\* framings of a JSON value: the plain body, and the SSE body with one
\* data line followed by a blank line
Plain(v) == <<J(v)>>
Sse(v) == <<D, J(v), NL, NL>>

\* bodies that are not one framed value: empty, not JSON, an SSE body whose
\* first data line does not parse, an event line before the data line
OddBodies(v) ==
    { <<>>, <<X>>, <<D, X, NL, D, J(v), NL, NL>>, <<X, NL, D, J(v), NL, NL>>,
      <<D, X, NL, NL>> }

Bodies(values, v) ==
    {Plain(w) : w \in values \cup CommonValues} \cup {Sse(w) : w \in values}
    \cup OddBodies(v)

\* The header is read before the body and independently of it: every body
\* comes with and without a session id, and the bodies of `few` also with
\* an empty header value and with a second id.
Responses(bodies, few) ==
    {Resp("ok", 200, sid, b) : sid \in {None, Sid1}, b \in bodies}
    \cup {Resp("ok", 200, sid, b) : sid \in {EmptyStr, Sid2}, b \in few}
    \cup {Resp("ok", 202, sid, <<>>) : sid \in SidValues}
    \cup {Resp("httperror", code, sid, <<X>>) : code \in {404, 500}, sid \in {None, Sid2}}
    \cup {Resp("urlerror", 0, None, <<>>)}
    \cup {Resp("readerror", 200, sid, <<>>) : sid \in {None, Sid1}}

InitializeResponses ==
    Responses(Bodies(InitializeValues, RpcResult(EmptyDict)),
              {Plain(RpcResult(EmptyDict)), <<X>>})
NotifyResponses ==
    Responses({<<>>, <<X>>, Plain(RpcError(ErrorObject))}, {<<>>})
ToolsListResponses ==
    Responses(Bodies(ToolsValues, RpcResult(Obj([tools |-> List(AllTools)]))),
              {Plain(RpcResult(Obj([tools |-> List(AllTools)]))), <<X>>})
ToolCallResponses ==
    Responses(Bodies(ToolCallValues, RpcResult(Obj([isError |-> Bool(FALSE)]))),
              {Plain(RpcResult(Obj([isError |-> Bool(FALSE)]))), <<X>>})

(***************************************************************************)
(* Program state.                                                          *)
(*   pc           the next statement group of the script                   *)
(*   passed, failed, session_id   the module globals                       *)
(*   resp, status the globals assigned from mcp_post by Test 1 .. Test 4   *)
(*   sent         the requests put on the wire, in order                   *)
(*   reply        the response the most recent request received            *)
(*   printed      the most recent [PASS]/[FAIL] line                       *)
(*   summary      the counts of the summary line, <<>> while not printed   *)
(*   exit_code    the process exit status, NotExited while running         *)
(*   ending       "running", "completed" (the final sys.exit), "aborted"   *)
(*                (sys.exit(1) of Test 1) or "exception" (traceback)       *)
(* and, for the decoding of a single body:                                 *)
(*   body_in      the JSON text offered to mcp_post                        *)
(*   plain_out    what mcp_post returned for the plain body                *)
(*   sse_out      what mcp_post returned for the SSE-framed body           *)
(***************************************************************************)
VARIABLES pc, passed, failed, session_id, resp, status, sent, reply,
          printed, summary, exit_code, ending, body_in, plain_out, sse_out

progVars == <<pc, passed, failed, session_id, resp, status, sent, reply,
              printed, summary, exit_code, ending>>
decodeVars == <<body_in, plain_out, sse_out>>
vars == <<pc, passed, failed, session_id, resp, status, sent, reply,
          printed, summary, exit_code, ending, body_in, plain_out, sse_out>>

NotExited == -1
Unassigned == -1
NotDecoded == [done |-> FALSE, raised |-> FALSE, resp |-> None, status |-> Unassigned]

InitializePayload == [jsonrpc |-> "2.0", id |-> 1, method |-> "initialize"]
\* a plausible slip: the notification is given an id like a request
NotifyPayloadWithId == [jsonrpc |-> "2.0", id |-> 2, method |-> "notifications/initialized"]

NotifyPayload == [jsonrpc |-> "2.0", method |-> "notifications/initialized"]
ToolsListPayload == [jsonrpc |-> "2.0", id |-> 2, method |-> "tools/list"]
GetQuotePayload == [jsonrpc |-> "2.0", id |-> 3, method |-> "tools/call", name |-> "get_quote"]
HkBuyPayload == [jsonrpc |-> "2.0", id |-> 4, method |-> "tools/call", name |-> "hk_buy"]

Init ==
    /\ pc = "call1"
    /\ passed = 0
    /\ failed = 0
    /\ session_id = None
    /\ resp = None
    /\ status = Unassigned
    /\ sent = <<>>
    /\ reply = NoReply
    /\ printed = NoLine
    /\ summary = <<>>
    /\ exit_code = NotExited
    /\ ending = "running"
    /\ body_in = <<>>
    /\ plain_out = NotDecoded
    /\ sse_out = NotDecoded

\* an uncaught exception: the interpreter prints a traceback and exits 1
Traceback ==
    /\ pc' = "exit"
    /\ exit_code' = 1
    /\ ending' = "exception"

\* `resp, status = mcp_post(payload)` at the statement group `at`
Call(at, payload, responses, next) ==
    /\ pc = at
    /\ \E r \in responses :
          LET out == McpPost(payload, session_id, r)
          IN  /\ sent' = Append(sent, out.request)
              /\ reply' = r
              /\ session_id' = out.session_id
              /\ IF out.raised
                    THEN /\ Traceback
                         /\ UNCHANGED <<resp, status>>
                 ELSE /\ resp' = out.resp
                      /\ status' = out.status
                      /\ pc' = next
                      /\ UNCHANGED <<exit_code, ending>>
    /\ UNCHANGED <<passed, failed, printed, summary, body_in, plain_out, sse_out>>

\* the counters and the printed line after a scenario's verdict
Record(outcome, next) ==
    /\ passed' = IF outcome.verdict = "pass" THEN passed + 1 ELSE passed
    /\ failed' = IF outcome.verdict = "fail" THEN failed + 1 ELSE failed
    /\ printed' = IF outcome.verdict = "none" THEN printed ELSE outcome.line
    /\ IF outcome.raised
          THEN Traceback
       ELSE /\ pc' = next
            /\ UNCHANGED <<exit_code, ending>>

Call1 == Call("call1", InitializePayload, InitializeResponses, "test1")

\* a plausible slip: the status == 0 check is missing
Test1NoAbort ==
    /\ pc = "test1"
    /\ Record(Test1Verdict(resp), "notify")
    /\ UNCHANGED <<session_id, resp, status, sent, reply, summary,
                   body_in, plain_out, sse_out>>

\* Test 1: the status == 0 abort, then the verdict
Test1 ==
    /\ pc = "test1"
    /\ IF status = 0
          THEN /\ failed' = failed + 1
               /\ printed' = FailLine(<<"initialize", "cannot connect">>, None, {})
               /\ pc' = "exit"
               /\ exit_code' = 1
               /\ ending' = "aborted"
               /\ UNCHANGED passed
       ELSE Record(Test1Verdict(resp), "notify")
    /\ UNCHANGED <<session_id, resp, status, sent, reply, summary,
                   body_in, plain_out, sse_out>>

\* a plausible slip: the notification is judged like a request, an absent
\* result counting as a failure
NotifyJudged ==
    /\ pc = "notify"
    /\ \E r \in NotifyResponses :
          LET out == McpPost(NotifyPayload, session_id, r)
          IN  /\ sent' = Append(sent, out.request)
              /\ reply' = r
              /\ session_id' = out.session_id
              /\ failed' = IF Truthy(out.resp) THEN failed ELSE failed + 1
              /\ IF out.raised
                    THEN Traceback
                 ELSE /\ pc' = "call2"
                      /\ UNCHANGED <<exit_code, ending>>
    /\ UNCHANGED <<passed, resp, status, printed, summary,
                   body_in, plain_out, sse_out>>

\* mcp_notify("notifications/initialized"): the return value is discarded
Notify ==
    /\ pc = "notify"
    /\ \E r \in NotifyResponses :
          LET out == McpPost(NotifyPayload, session_id, r)
          IN  /\ sent' = Append(sent, out.request)
              /\ reply' = r
              /\ session_id' = out.session_id
              /\ IF out.raised
                    THEN Traceback
                 ELSE /\ pc' = "call2"
                      /\ UNCHANGED <<exit_code, ending>>
    /\ UNCHANGED <<passed, failed, resp, status, printed, summary,
                   body_in, plain_out, sse_out>>

Call2 == Call("call2", ToolsListPayload, ToolsListResponses, "test2")

\* a plausible slip: Test 2 repeats the status == 0 abort of Test 1
Test2Aborting ==
    /\ pc = "test2"
    /\ IF status = 0
          THEN /\ failed' = failed + 1
               /\ printed' = FailLine(<<"tools/list", "cannot connect">>, None, {})
               /\ pc' = "exit"
               /\ exit_code' = 1
               /\ ending' = "aborted"
               /\ UNCHANGED passed
       ELSE Record(Test2Verdict(resp), "call3")
    /\ UNCHANGED <<session_id, resp, status, sent, reply, summary,
                   body_in, plain_out, sse_out>>

Test2 ==
    /\ pc = "test2"
    /\ Record(Test2Verdict(resp), "call3")
    /\ UNCHANGED <<session_id, resp, status, sent, reply, summary,
                   body_in, plain_out, sse_out>>

Call3 == Call("call3", GetQuotePayload, ToolCallResponses, "test3")

Test3 ==
    /\ pc = "test3"
    /\ Record(ToolCallVerdict("get_quote", resp), "call4")
    /\ UNCHANGED <<session_id, resp, status, sent, reply, summary,
                   body_in, plain_out, sse_out>>

Call4 == Call("call4", HkBuyPayload, ToolCallResponses, "test4")

Test4 ==
    /\ pc = "test4"
    /\ Record(ToolCallVerdict("hk_buy", resp), "summary")
    /\ UNCHANGED <<session_id, resp, status, sent, reply, summary,
                   body_in, plain_out, sse_out>>

\* a plausible slip: the threshold off by one
ExitStatusOffByOne(f) == IF f > 1 THEN 1 ELSE 0

\* 1 if failed > 0 else 0
ExitStatus(f) == IF f > 0 THEN 1 ELSE 0

\* a plausible slip: the total counts the passes only
SummaryTotalOfPassed ==
    /\ pc = "summary"
    /\ summary' = <<passed, failed, passed>>
    /\ exit_code' = ExitStatus(failed)
    /\ ending' = "completed"
    /\ pc' = "exit"
    /\ UNCHANGED <<passed, failed, session_id, resp, status, sent, reply,
                   printed, body_in, plain_out, sse_out>>

\* the summary line and sys.exit(1 if failed > 0 else 0)
Summary ==
    /\ pc = "summary"
    /\ summary' = <<passed, failed, passed + failed>>
    /\ exit_code' = ExitStatus(failed)
    /\ ending' = "completed"
    /\ pc' = "exit"
    /\ UNCHANGED <<passed, failed, session_id, resp, status, sent, reply,
                   printed, body_in, plain_out, sse_out>>

Next ==
    \/ Call1
    \/ Test1
    \/ Notify
    \/ Call2
    \/ Test2
    \/ Call3
    \/ Test3
    \/ Call4
    \/ Test4
    \/ Summary

Spec == Init /\ [][Next]_vars

(***************************************************************************)
(* Decoding one body in isolation: mcp_post is given the same JSON text    *)
(* once as a plain body and once SSE-framed, with no session cached.       *)
(***************************************************************************)
MaxBodyLen == 4

BodyAlphabet == {D, NL, LS, SP, Q, N, X, J(RpcResult(EmptyDict))}

BodyTexts == UNION {[1..n -> BodyAlphabet] : n \in 0..MaxBodyLen}

\* "data: <text>" followed by a blank line
SseFrame(text) == <<D>> \o text \o <<NL, NL>>

Decoded(out) ==
    [done |-> TRUE, raised |-> out.raised, resp |-> out.resp, status |-> out.status]

InitDecode ==
    /\ pc = "decode"
    /\ passed = 0
    /\ failed = 0
    /\ session_id = None
    /\ resp = None
    /\ status = Unassigned
    /\ sent = <<>>
    /\ reply = NoReply
    /\ printed = NoLine
    /\ summary = <<>>
    /\ exit_code = NotExited
    /\ ending = "running"
    /\ body_in \in BodyTexts
    /\ plain_out = NotDecoded
    /\ sse_out = NotDecoded

DecodePlain ==
    /\ pc = "decode"
    /\ ~plain_out.done
    /\ plain_out' = Decoded(McpPost(ToolsListPayload, session_id,
                                    Resp("ok", 200, None, body_in)))
    /\ UNCHANGED <<progVars, body_in, sse_out>>

DecodeSse ==
    /\ pc = "decode"
    /\ ~sse_out.done
    /\ sse_out' = Decoded(McpPost(ToolsListPayload, session_id,
                                  Resp("ok", 200, None, SseFrame(body_in))))
    /\ UNCHANGED <<progVars, body_in, plain_out>>

NextDecode ==
    \/ DecodePlain
    \/ DecodeSse

SpecDecode == InitDecode /\ [][NextDecode]_vars

(***************************************************************************)
(* Properties.                                                             *)
(***************************************************************************)
LastSent == sent[Len(sent)]

\* the Mcp-Session-Id header of a request, None when it has none
HeaderOf(request) ==
    IF SessionHeader \in DOMAIN request.headers
        THEN request.headers[SessionHeader]
    ELSE None

\* the response is a 2xx response whose Mcp-Session-Id header is non-empty
SetsSession(r) == r.kind = "ok" /\ r.sid.k = "str" /\ r.sid.s # <<>>

\* a step that puts a request on the wire
Sends == Len(sent') = Len(sent) + 1

\* C1: when the process has exited, its exit code is 0 exactly when all four
\* scenarios ran to completion and the failed counter is zero; the abort of
\* Test 1 always exits with 1.
C1_ExitCode ==
    pc = "exit" =>
        /\ (exit_code = 0) <=> (ending = "completed" /\ failed = 0)
        /\ ending = "aborted" => exit_code = 1
        /\ exit_code \in {0, 1}

C1_Witness ==
    pc = "exit" /\ ending = "completed" /\ failed = 1 /\ passed = 3 /\ exit_code = 1

\* C2: when the initialize call returned status 0 the next step exits with
\* code 1 on the abort path without sending anything, and nothing happens
\* after the exit: the initialize request stays the only request sent.
C2_AbortOnUnreachable ==
    [][/\ pc # "exit"
       /\ (pc = "test1" /\ status = 0) =>
              /\ pc' = "exit"
              /\ exit_code' = 1
              /\ ending' = "aborted"
              /\ sent' = sent
              /\ Len(sent) = 1]_vars

C2_Witness ==
    pc = "exit" /\ ending = "aborted" /\ reply.kind = "urlerror" /\ Len(sent) = 1

\* C3: every request after the first carries the session id of the response
\* just received when that response set one, and otherwise the same header
\* (or absence of header) as the request before it.
C3_SessionPersistence ==
    [][(Sends /\ Len(sent) >= 1) =>
          HeaderOf(sent'[Len(sent')]) =
              IF SetsSession(reply) THEN reply.sid ELSE HeaderOf(LastSent)]_vars

C3_Witness ==
    /\ Len(sent) = 4
    /\ HeaderOf(sent[2]) = Sid1
    /\ HeaderOf(sent[3]) = Sid1
    /\ HeaderOf(sent[4]) = Sid2

\* the body is one line of JSON text
OneLineJson(text) ==
    /\ JsonLoads(text).ok
    /\ \A i \in 1..Len(text) : text[i] # NL

\* C4: for a one-line JSON text, mcp_post returns the same value and status
\* for the SSE-framed body as for the plain body.
C4_SseRoundTrip ==
    (plain_out.done /\ sse_out.done /\ OneLineJson(body_in)) =>
        /\ sse_out.resp = plain_out.resp
        /\ sse_out.status = plain_out.status

\* a 2xx response with status 202 and an empty body
Accepted202(r) == r.kind = "ok" /\ r.code = 202 /\ r.body = <<>>

\* C5: a call answered by 202 with an empty body returns (None, 202); as the
\* answer to the notification it changes no counter, prints no verdict and
\* the script goes on to tools/list.
C5_Accepted202 ==
    [][(Sends /\ Accepted202(reply')) =>
          IF pc = "notify"
              THEN /\ pc' = "call2"
                   /\ passed' = passed
                   /\ failed' = failed
                   /\ printed' = printed
                   /\ exit_code' = NotExited
          ELSE /\ resp' = None
               /\ status' = 202
               /\ pc' # "exit"]_vars

C5_Witness ==
    pc = "call2" /\ Accepted202(reply) /\ passed + failed = 1

\* the response is a JSON object with a result member
HasResult(v) == v.k = "obj" /\ "result" \in DOMAIN v.m

\* the response is a JSON object with an error member
HasError(v) == v.k = "obj" /\ "error" \in DOMAIN v.m

\* the response has a result.serverInfo.name
HasServerName(v) ==
    /\ HasResult(v)
    /\ v.m["result"].k = "obj"
    /\ "serverInfo" \in DOMAIN v.m["result"].m
    /\ v.m["result"].m["serverInfo"].k = "obj"
    /\ "name" \in DOMAIN v.m["result"].m["serverInfo"].m

ServerName(v) == v.m["result"].m["serverInfo"].m["name"]

\* C6: when initialize did not return status 0, scenario 1 records a pass
\* exactly when the response has a result whose serverInfo.name is
\* "qtrade-mcp"; in every other case it records exactly one fail, and a
\* wrong name is part of the failure line.
C6_HandshakeVerdict ==
    [][(pc = "test1" /\ status # 0) =>
          IF HasServerName(resp) /\ ServerName(resp) = ExpectedServer
              THEN passed' = passed + 1 /\ failed' = failed
          ELSE /\ passed' = passed
               /\ failed' = failed + 1
               /\ HasServerName(resp) =>
                      (printed'.tag = "FAIL" /\ printed'.name = ServerName(resp))]_vars

\* the response has a result with a list of tools (an absent tools member
\* is the empty list)
ReturnsTools(v) ==
    /\ HasResult(v)
    /\ v.m["result"].k = "obj"
    /\ Get(v.m["result"], "tools", EmptyList).k = "list"

ReturnedTools(v) == Get(v.m["result"], "tools", EmptyList).items

\* the names of the returned tools
ReturnedNames(v) ==
    {ReturnedTools(v)[i].m["name"] :
        i \in {j \in 1..Len(ReturnedTools(v)) :
                  /\ ReturnedTools(v)[j].k = "obj"
                  /\ "name" \in DOMAIN ReturnedTools(v)[j].m}}

\* C7: scenario 2 records a pass exactly when the returned tool names
\* include hk_buy, hk_sell and get_quote, whatever else is returned; when a
\* list of tools is returned and a required one is missing, it records one
\* fail whose line names exactly the required tools that were not returned.
C7_ToolsListVerdict ==
    [][pc = "test2" =>
          LET superset == ReturnsTools(resp)
                          /\ expected_tools \subseteq ReturnedNames(resp)
          IN  /\ (passed' = passed + 1) <=> superset
              /\ superset => failed' = failed
              /\ (ReturnsTools(resp) /\ ~superset) =>
                     /\ failed' = failed + 1
                     /\ printed'.tag = "FAIL"
                     /\ printed'.missing = expected_tools \ ReturnedNames(resp)]_vars

\* C8: scenarios 3 and 4 record a pass for every response with a result,
\* whatever isError is, and a fail for every other response: an error
\* envelope, an absent body, a body with neither result nor error.
C8_ToolCallVerdict ==
    [][(pc = "test3" \/ pc = "test4") =>
          (IF HasResult(resp)
              THEN passed' = passed + 1 /\ failed' = failed
           ELSE passed' = passed /\ failed' = failed + 1)]_vars

\* mcp_post returned status 0 for the most recent request
ConnectionFailed == reply.kind = "urlerror"

\* C9 as claimed: after a status 0 on any call the next step exits the
\* process and nothing more is sent.
C9_AnyConnectionFailureFatal ==
    [][ConnectionFailed => (pc' = "exit" /\ sent' = sent)]_vars

\* C9 as amended: a status 0 on initialize aborts the run with exit code 1
\* after one fail; a status 0 on the notification is ignored and tools/list
\* is sent; a status 0 in scenarios 2, 3 and 4 records one fail and the
\* script goes on to the next statement group.
C9_ConnectionFailure ==
    [][ConnectionFailed =>
          CASE pc = "test1" ->
                  /\ pc' = "exit"
                  /\ exit_code' = 1
                  /\ failed' = failed + 1
                  /\ passed' = passed
                  /\ sent' = sent
            [] pc = "call2" ->
                  /\ Sends
                  /\ passed' = passed
                  /\ failed' = failed
            [] pc \in {"test2", "test3", "test4"} ->
                  /\ status = 0
                  /\ failed' = failed + 1
                  /\ passed' = passed
                  /\ pc' = (CASE pc = "test2" -> "call3"
                              [] pc = "test3" -> "call4"
                              [] pc = "test4" -> "summary")
            [] OTHER -> TRUE]_vars

C9_Witness ==
    pc = "call4" /\ ConnectionFailed /\ status = 0 /\ Len(sent) = 4 /\ failed >= 1

\* C10: a step that records a fail, other than the abort of Test 1, never
\* ends the run; a non-2xx response gives (None, status code) and one fail
\* for the calling scenario; and the run ends only at the summary or at the
\* abort of Test 1.
C10_ScenariosIndependent ==
    [][/\ (failed' = failed + 1 /\ ~(pc = "test1" /\ status = 0)) => pc' # "exit"
       /\ (pc \in {"test1", "test2", "test3", "test4"} /\ reply.kind = "httperror") =>
              /\ resp = None
              /\ status = reply.code
              /\ failed' = failed + 1
       /\ pc' = "exit" => (pc = "summary" \/ (pc = "test1" /\ status = 0))]_vars

\* a step that runs the verdict block of a scenario, the abort of Test 1
\* excepted
Judges ==
    /\ pc = "test1" \/ pc = "test2" \/ pc = "test3" \/ pc = "test4"
    /\ ~(pc = "test1" /\ status = 0)

\* C11: whatever the response, the verdict block of every scenario that is
\* reached records a verdict and the script goes on towards its normal
\* exit: no exception ends the run there.
C11_NoExceptionEscapes ==
    [][Judges =>
          /\ passed' + failed' = passed + failed + 1
          /\ pc' # "exit"]_vars

\* C12 as claimed: the summary line with the counts and their total has
\* been printed when the script exits after the four scenarios and also
\* when it exits on the abort of Test 1.
C12_SummaryOnEveryPath ==
    (pc = "exit" /\ (ending = "completed" \/ ending = "aborted")) =>
        summary = <<passed, failed, passed + failed>>

\* C12 as amended: the summary line is printed exactly when the script
\* reaches its final statement after scenario 4, with the two counts and
\* their total; the abort of Test 1 exits without it.
C12_SummaryAtEnd ==
    /\ summary # <<>> <=> (pc = "exit" /\ ending = "completed")
    /\ summary # <<>> => summary = <<passed, failed, passed + failed>>
    /\ (pc = "exit" /\ ending = "aborted") => summary = <<>>

C12_Witness ==
    pc = "exit" /\ ending = "aborted" /\ summary = <<>> /\ failed = 1

\* the call ran into the timeout: while connecting (URLError) or while
\* waiting for or reading the response
TimedOut(r) == r.kind = "urlerror" \/ r.kind = "readerror"

\* C13: a call that runs into the timeout raises nothing and returns
\* (None, 0), as a connection failure does.
C13_TimeoutIsStatusZero ==
    [][(Sends /\ TimedOut(reply')) =>
          /\ ending' # "exception"
          /\ pc # "notify" => (resp' = None /\ status' = 0)]_vars

\* the bodies decoded so far, each with what mcp_post returned for it
DecodedBodies ==
    (IF plain_out.done THEN {<<body_in, plain_out>>} ELSE {})
    \cup (IF sse_out.done THEN {<<SseFrame(body_in), sse_out>>} ELSE {})

\* the lines of the body that start with "data: " and whose remainder is
\* JSON, by position
ParsingDataLines(body) ==
    {i \in 1..Len(SplitLines(body)) :
        /\ StartsWithData(SplitLines(body)[i])
        /\ JsonLoads(Tail(SplitLines(body)[i])).ok}

FirstParsingDataLine(body) ==
    CHOOSE i \in ParsingDataLines(body) : \A j \in ParsingDataLines(body) : i <= j

DataLineValue(body, i) == JsonLoads(Tail(SplitLines(body)[i])).v

WholeBodyValue(body) == IF JsonLoads(body).ok THEN JsonLoads(body).v ELSE None

\* C14 as claimed: a body that contains "data: " is decoded from its data
\* lines only (absent when none parses), and only a body without "data: "
\* is parsed as a whole; the status is the response's and nothing is raised.
C14_FirstMatchOnly ==
    \A p \in DecodedBodies :
        /\ ~p[2].raised
        /\ p[2].status = 200
        /\ p[2].resp =
              IF HasData(p[1])
                  THEN (IF ParsingDataLines(p[1]) # {}
                            THEN DataLineValue(p[1], FirstParsingDataLine(p[1]))
                        ELSE None)
              ELSE WholeBodyValue(p[1])

\* C14 as amended: a body that contains "data: " is decoded from its first
\* data line that parses; a body without "data: ", and also a body with
\* "data: " in which no data line parses, is parsed as a whole; when that
\* fails too the result is None.  The status is the response's and nothing
\* is raised.
C14_DecodingPolicy ==
    \A p \in DecodedBodies :
        /\ ~p[2].raised
        /\ p[2].status = 200
        /\ p[2].resp =
              IF HasData(p[1]) /\ ParsingDataLines(p[1]) # {}
                  THEN DataLineValue(p[1], FirstParsingDataLine(p[1]))
              ELSE WholeBodyValue(p[1])

C14_Witness ==
    /\ body_in = <<Q, D, Q>>
    /\ plain_out.done
    /\ plain_out.resp = Str(<<"data: ">>)

\* C15: in a body with data lines, the value returned is that of the first
\* data line whose remainder parses: data lines before it that do not parse
\* are passed over, data lines after it are not used.
C15_FirstParsingDataLine ==
    \A p \in DecodedBodies :
        \A i \in 1..Len(SplitLines(p[1])) :
            (/\ StartsWithData(SplitLines(p[1])[i])
             /\ JsonLoads(Tail(SplitLines(p[1])[i])).ok
             /\ \A j \in 1..(i - 1) :
                   ~(/\ StartsWithData(SplitLines(p[1])[j])
                     /\ JsonLoads(Tail(SplitLines(p[1])[j])).ok))
            => p[2].resp = JsonLoads(Tail(SplitLines(p[1])[i])).v

C15_Witness ==
    /\ body_in = <<X, NL, D, N>>
    /\ sse_out.done
    /\ sse_out.resp = Num(1)

\* a header value that is a non-empty string
NonEmpty(v) == v.k = "str" /\ v.s # <<>>

\* the server answered with response headers (any status code)
Answered(r) == r.kind = "ok" \/ r.kind = "httperror" \/ r.kind = "readerror"

\* urlopen returned the response (a 2xx status code)
Returned2xx(r) == r.kind = "ok" \/ r.kind = "readerror"

\* C16 as claimed: after a response that carries a session header, whatever
\* its status code, the cached session id is that header's value; after a
\* response without the header the cache is unchanged.
C16_CacheWhateverStatus ==
    [][(Sends /\ Answered(reply')) =>
          /\ NonEmpty(reply'.sid) => session_id' = reply'.sid
          /\ reply'.sid = None => session_id' = session_id]_vars

\* C16 as amended: after a 2xx response whose session header is a non-empty
\* value the cached session id is that value; after every other outcome (no
\* header, an empty value, an HTTPError whatever its headers, a connection
\* failure) the cache is unchanged.
C16_CacheOn2xx ==
    [][Sends =>
          session_id' = IF Returned2xx(reply') /\ NonEmpty(reply'.sid)
                            THEN reply'.sid
                        ELSE session_id]_vars

C16_Witness ==
    reply.kind = "httperror" /\ reply.sid = Sid2 /\ session_id = Sid1

\* the five POSTs of a complete run
ExpectedOrder ==
    << [method |-> "initialize", hasId |-> TRUE, id |-> 1, name |-> ""],
       [method |-> "notifications/initialized", hasId |-> FALSE, id |-> 0, name |-> ""],
       [method |-> "tools/list", hasId |-> TRUE, id |-> 2, name |-> ""],
       [method |-> "tools/call", hasId |-> TRUE, id |-> 3, name |-> "get_quote"],
       [method |-> "tools/call", hasId |-> TRUE, id |-> 4, name |-> "hk_buy"] >>

IsExpected(payload, e) ==
    /\ payload.method = e.method
    /\ ("id" \in DOMAIN payload) = e.hasId
    /\ e.hasId => payload.id = e.id
    /\ ("name" \in DOMAIN payload) = (e.name # "")
    /\ e.name # "" => payload.name = e.name

\* C17: the requests sent so far are, in order and each once, the first
\* requests of initialize (id 1), notifications/initialized (no id),
\* tools/list (id 2), tools/call get_quote (id 3), tools/call hk_buy (id 4);
\* a run that reaches its final statement has sent exactly these five.
C17_FixedOrder ==
    /\ Len(sent) <= 5
    /\ \A i \in 1..Len(sent) : IsExpected(sent[i].payload, ExpectedOrder[i])
    /\ ending = "completed" => Len(sent) = 5
    /\ pc = "exit" \/ Len(sent) =
          (CASE pc = "call1" -> 0
             [] pc = "test1" -> 1
             [] pc = "notify" -> 1
             [] pc = "call2" -> 2
             [] pc = "test2" -> 3
             [] pc = "call3" -> 3
             [] pc = "test3" -> 4
             [] pc = "call4" -> 4
             [] pc = "test4" -> 5
             [] pc = "summary" -> 5)

C17_Witness ==
    pc = "exit" /\ ending = "completed" /\ Len(sent) = 5 /\ passed = 2 /\ failed = 2

\* C18: every verdict block that runs makes exactly one of passed / failed
\* grow by one; a step that sends a request changes neither counter; no
\* counter decreases; passed + failed = 4 at the summary; passed = 0 and
\* failed = 1 after the abort of Test 1.
C18_OneVerdictEach ==
    [][/\ (pc = "test1" \/ pc = "test2" \/ pc = "test3" \/ pc = "test4") =>
              \/ passed' = passed + 1 /\ failed' = failed
              \/ passed' = passed /\ failed' = failed + 1
       /\ Sends => (passed' = passed /\ failed' = failed)
       /\ passed' >= passed
       /\ failed' >= failed
       /\ pc = "summary" => passed + failed = 4
       /\ ending' = "aborted" => (passed' = 0 /\ failed' = 1)]_vars

\* C19: a request carries the Mcp-Session-Id header exactly when the cached
\* session id is a non-empty string at the time it is sent, with that value;
\* the first request carries none; a cached non-empty id is never replaced
\* by an empty one.
C19_HeaderIffCached ==
    [][/\ Sends =>
              /\ (SessionHeader \in DOMAIN sent'[Len(sent')].headers) <=> NonEmpty(session_id)
              /\ HeaderOf(sent'[Len(sent')]) = (IF NonEmpty(session_id) THEN session_id ELSE None)
              /\ Len(sent) = 0 => SessionHeader \notin DOMAIN sent'[Len(sent')].headers
       /\ NonEmpty(session_id) => NonEmpty(session_id')]_vars

C19_Witness ==
    /\ Len(sent) >= 2
    /\ reply.kind = "ok"
    /\ reply.sid = EmptyStr
    /\ session_id = Sid1
    /\ HeaderOf(LastSent) = Sid1

\* C20: in scenarios 3 and 4 a response with both a result and an error
\* records a pass, never the fail of the JSON-RPC error branch.
C20_ResultWins ==
    [][((pc = "test3" \/ pc = "test4") /\ HasResult(resp) /\ HasError(resp)) =>
          /\ passed' = passed + 1
          /\ failed' = failed
          /\ printed'.tag = "PASS"]_vars

====
